---- MODULE Spec2Model ----
(***************************************************************************)
(* Task / project lifecycle and ownership model of the TaskFlow server:    *)
(* the Express handlers of server/routes.ts over the two IStorage          *)
(* implementations of server/storage.ts (MemStorage and DatabaseStorage,   *)
(* the latter over the tables of shared/schema.ts).                        *)
(*                                                                         *)
(* A request handler is one atomic action where requests are made one at   *)
(* a time; where they overlap, a handler is a sequence of steps, one for    *)
(* each storage call it awaits (calls holds the handlers in flight).       *)
(***************************************************************************)
EXTENDS Integers, FiniteSets, Sequences, TLC

VARIABLES backend, projects, tasks, projectIdCounter, taskIdCounter, now, resp, calls

vars == <<backend, projects, tasks, projectIdCounter, taskIdCounter, now, resp, calls>>
store == <<projects, tasks, projectIdCounter, taskIdCounter>>

----------------------------------------------------------------------------
(* Bounds of the model *)

MaxProjectId == 2
MaxTaskId == 1
MaxCascadeTaskId == 2
MaxTime == 1
MaxQuotaProjectId == 5
MaxLifeProjectId == 1
MaxLifeTaskId == 1
MaxEditProjectId == 1
MaxStatsProjectId == 2
MaxStatsTaskId == 2
MaxCalls == 2
MaxRaceProjectId == 5
MaxConcProjectId == 2
MaxConcTaskId == 2
MaxFailProjectId == 4
MaxFailTaskId == 1
MaxIdentProjectId == 1
MaxIdentTaskId == 2
MaxLateProjectId == 1
MaxLateTaskId == 2
MaxSnapProjectId == 1
MaxSnapTaskId == 1

(* Program constants *)

MaxProjectsPerUser == 4

(* The registered users (rows of the users table); every request is made   *)
(* by an authenticated principal, req.user!.id.                            *)
Users == {1, 2}

----------------------------------------------------------------------------
(* Values *)

\* a nullable timestamp column: NullTs is SQL NULL / JS null, a date is 0..
NullTs == -1
\* a timestamp key that the request body does not carry
AbsentTs == -2
\* a userId key that the request body does not carry
NoUserId == 0

\* a body without the key id
NoTaskId == 0

\* JS values of a projectId key of a request body: absent, a number, or the
\* decimal string of a number
Absent == [t |-> "absent", v |-> 0]
Num(n) == [t |-> "num", v |-> n]
Str(n) == [t |-> "str", v |-> n]

\* JS truthiness of such a value: 0 and undefined are falsy, every string
\* of digits ("0" included) is truthy
Truthy(x) == (x.t = "num" /\ x.v # 0) \/ x.t = "str"

\* JS strict inequality  x !== n  of a body value and a stored number
StrictNotEqual(x, n) == ~(x.t = "num" /\ x.v = n)

\* the tri-state completed column / key: "true", "false", or "null"
\* (SQL NULL, JS null or undefined); in a body also "absent"
IsCompleted(c) == c = "true"

NoBody == [kind |-> "none"]
TaskBody(t) == [kind |-> "task", ent |-> t]
ProjectBody(p) == [kind |-> "project", ent |-> p]
StatsBody(s) == [kind |-> "stats", stats |-> s]

\* the response to the request op that principal u made on entity id (0 when
\* the request names none)
Response(op, u, id, status, body) ==
    [op |-> op, by |-> u, id |-> id, status |-> status, body |-> body]

NoResponse == Response("none", 0, 0, "none", NoBody)

\* f with key k removed
Remove(f, k) == [i \in DOMAIN f \ {k} |-> f[i]]

\* f with key k bound to v
Put(f, k, v) == [i \in DOMAIN f \cup {k} |-> IF i = k THEN v ELSE f[i]]

----------------------------------------------------------------------------
(* shared/schema.ts: column defaults and the validation schemas *)

\* tasks.status: text("status").notNull().default("todo")
TaskStatusDefault == "todo"
\* tasks.completed: boolean("completed").default(false)
TaskCompletedDefault == "false"
\* projects.status: text("status").notNull().default("planning")
ProjectStatusDefault == "planning"

\* taskValidationSchema: title 1..100 chars, projectId z.number().min(1)
TaskValid(body) == body.titleOk /\ body.projectId.t = "num" /\ body.projectId.v >= 1

\* projectValidationSchema: name is required, a string of 1..100 chars
ProjectValid(body) == body.name \notin {"absent", ""}

\* projectValidationSchema.parse without the stripping of unknown keys
ProjectParse_Passthrough(body) ==
    [body EXCEPT !.dueDate = IF @ = AbsentTs THEN NullTs ELSE @]

\* the value projectValidationSchema.parse returns for a valid body: the keys
\* of the schema, dueDate transformed (val ? new Date(val) : null, so that a
\* body without dueDate gets dueDate: null), every other key stripped
\* (createdAt stands for the keys that are outside the schema)
ProjectParse(body) ==
    [body EXCEPT !.dueDate = IF @ = AbsentTs THEN NullTs ELSE @,
                 !.createdAt = AbsentTs]

----------------------------------------------------------------------------
(* server/storage.ts, class MemStorage.  P is the projects map, T the      *)
(* tasks map, t the value of new Date().                                   *)

\* a counter that hands out its value and stays where it is
NextId_Same(counter) == counter

\* const id = this.projectIdCounter++ (this.taskIdCounter++), and the
\* sequence of a serial column: the value after the one handed out
NextId(counter) == counter + 1

\* { ...insertProject, id, createdAt: now }
MemCreateProject(P, id, ins, t) ==
    Put(P, id, [id |-> id, userId |-> ins.userId,
                name |-> ins.name,
                description |-> IF ins.description = "absent" THEN "undefined"
                                ELSE ins.description,
                status |-> IF ins.status = "absent" THEN "undefined" ELSE ins.status,
                dueDate |-> ins.dueDate,
                createdAt |-> t])

\* { ...project, ...updateData } and set(updateData): the keys that
\* updateData has replace those of the project
ProjectMerge(project, upd) ==
    [id          |-> project.id,
     userId      |-> IF upd.userId = NoUserId THEN project.userId ELSE upd.userId,
     name        |-> IF upd.name = "absent" THEN project.name ELSE upd.name,
     description |-> IF upd.description = "absent" THEN project.description
                     ELSE upd.description,
     status      |-> IF upd.status = "absent" THEN project.status ELSE upd.status,
     dueDate     |-> IF upd.dueDate = AbsentTs THEN project.dueDate ELSE upd.dueDate,
     createdAt   |-> IF upd.createdAt = AbsentTs THEN project.createdAt ELSE upd.createdAt]

MemUpdateProject(P, id, upd) ==
    IF id \notin DOMAIN P THEN P
    ELSE Put(P, id, ProjectMerge(P[id], upd))

MemGetTasksByProjectId(T, projectId) == {i \in DOMAIN T : T[i].projectId = projectId}

MemGetTasksByUserId(T, userId) == {i \in DOMAIN T : T[i].userId = userId}

MemGetProjectsByUserId(P, userId) == {i \in DOMAIN P : P[i].userId = userId}

MemCountProjectsByUserId(P, userId) == Cardinality(MemGetProjectsByUserId(P, userId))

MemDeleteTask(T, id) == Remove(T, id)

\* deleteProject without the loop over the related tasks
MemDeleteProject_NoCascade(P, T, id) ==
    [projects |-> Remove(P, id), tasks |-> T, result |-> id \in DOMAIN P]

\* deletes the related tasks first, each by the id that the task carries
\* (deleteTask(task.id)), then the project; reports whether the project
\* existed
MemDeleteProject(P, T, id) ==
    [projects |-> Remove(P, id),
     tasks    |-> [i \in DOMAIN T \ {T[j].id : j \in MemGetTasksByProjectId(T, id)} |-> T[i]],
     result   |-> id \in DOMAIN P]

MemCreateTask(T, id, ins, t) ==
    Put(T, id, [id |-> id, userId |-> ins.userId, projectId |-> ins.projectId.v,
                completed |-> IF ins.completed = "absent" THEN "null" ELSE ins.completed,
                status |-> IF ins.status = "absent" THEN "undefined" ELSE ins.status,
                createdAt |-> t,
                completedAt |-> NullTs])

\* { ...task, ...updateData }
Merge(task, upd) ==
    [id          |-> IF upd.id = NoTaskId THEN task.id ELSE upd.id,
     userId      |-> IF upd.userId = NoUserId THEN task.userId ELSE upd.userId,
     projectId   |-> IF upd.projectId.t = "absent" THEN task.projectId ELSE upd.projectId.v,
     completed   |-> IF upd.completed = "absent" THEN task.completed ELSE upd.completed,
     status      |-> IF upd.status = "absent" THEN task.status ELSE upd.status,
     createdAt   |-> IF upd.createdAt = AbsentTs THEN task.createdAt ELSE upd.createdAt,
     completedAt |-> IF upd.completedAt = AbsentTs THEN task.completedAt ELSE upd.completedAt]

\* updateTask stamping completedAt only when the payload carries none
MemUpdateTask_PayloadWins(T, id, upd, t) ==
    IF id \notin DOMAIN T THEN [tasks |-> T, result |-> "undefined", id |-> id]
    ELSE LET task == T[id]
             merged == Merge(task, upd)
             set == IF /\ upd.completed = "true" /\ ~IsCompleted(task.completed)
                       /\ upd.completedAt = AbsentTs
                    THEN [merged EXCEPT !.completedAt = t] ELSE merged
             cleared == IF upd.completed = "false" /\ IsCompleted(task.completed)
                        THEN [set EXCEPT !.completedAt = NullTs] ELSE set
         IN [tasks |-> Put(T, id, cleared), result |-> "row", id |-> id]

MemUpdateTask(T, id, upd, t) ==
    IF id \notin DOMAIN T THEN [tasks |-> T, result |-> "undefined", id |-> id]
    ELSE LET task == T[id]
             merged == Merge(task, upd)
             set == IF upd.completed = "true" /\ ~IsCompleted(task.completed)
                    THEN [merged EXCEPT !.completedAt = t] ELSE merged
             cleared == IF upd.completed = "false" /\ IsCompleted(task.completed)
                        THEN [set EXCEPT !.completedAt = NullTs] ELSE set
         IN [tasks |-> Put(T, id, cleared), result |-> "row", id |-> id]

\* completeTask as a toggle: a completed task is reopened
MemCompleteTask_Toggle(T, id, t) ==
    IF id \notin DOMAIN T THEN [tasks |-> T, result |-> "undefined", id |-> id]
    ELSE IF IsCompleted(T[id].completed)
    THEN [tasks |-> Put(T, id, [T[id] EXCEPT !.completed = "false",
                                             !.status = "todo",
                                             !.completedAt = NullTs]),
          result |-> "row", id |-> id]
    ELSE [tasks |-> Put(T, id, [T[id] EXCEPT !.completed = "true",
                                             !.status = "completed",
                                             !.completedAt = t]),
          result |-> "row", id |-> id]

MemCompleteTask(T, id, t) ==
    IF id \notin DOMAIN T THEN [tasks |-> T, result |-> "undefined", id |-> id]
    ELSE [tasks |-> Put(T, id, [T[id] EXCEPT !.completed = "true",
                                             !.status = "completed",
                                             !.completedAt = t]),
          result |-> "row", id |-> id]

----------------------------------------------------------------------------
(* server/storage.ts, class DatabaseStorage, over the tables of            *)
(* shared/schema.ts (foreign keys tasks.user_id -> users.id and            *)
(* tasks.project_id -> projects.id, both ON DELETE CASCADE).               *)

\* insert into projects: description is NULL, status "planning" and
\* created_at now() when values() has no such key
DbCreateProject(P, id, ins, t) ==
    Put(P, id, [id |-> id, userId |-> ins.userId,
                name |-> ins.name,
                description |-> IF ins.description = "absent" THEN "null"
                                ELSE ins.description,
                status |-> IF ins.status = "absent" THEN ProjectStatusDefault ELSE ins.status,
                dueDate |-> ins.dueDate,
                createdAt |-> IF ins.createdAt = AbsentTs THEN t ELSE ins.createdAt])

DbUpdateProject(P, id, upd) ==
    IF id \notin DOMAIN P THEN P
    ELSE Put(P, id, ProjectMerge(P[id], upd))

\* select from projects / tasks where user_id = $1: the rows
DbGetProjectsByUserId(P, userId) == {i \in DOMAIN P : P[i].userId = userId}

DbGetTasksByProjectId(T, projectId) == {i \in DOMAIN T : T[i].projectId = projectId}

\* the select without its where clause: the tasks of every user
DbGetTasksByUserId_AllUsers(T, userId) == DOMAIN T

DbGetTasksByUserId(T, userId) == {i \in DOMAIN T : T[i].userId = userId}

\* the count without its where clause: the projects of every user
DbCountProjectsByUserId_AllUsers(P, userId) == Cardinality(DOMAIN P)

DbCountProjectsByUserId(P, userId) == Cardinality({i \in DOMAIN P : P[i].userId = userId})

DbDeleteTask(T, id) == Remove(T, id)

\* delete from projects where id = $1 returning id; the rows of tasks that
\* reference the project go with it (onDelete: "cascade")
DbDeleteProject(P, T, id) ==
    [projects |-> Remove(P, id),
     tasks    |-> IF id \in DOMAIN P
                  THEN [i \in {j \in DOMAIN T : T[j].projectId # id} |-> T[i]]
                  ELSE T,
     result   |-> id \in DOMAIN P]

\* insert into tasks: created_at is now() (defaultNow), completed_at NULL
DbCreateTask(T, id, ins, t) ==
    Put(T, id, [id |-> id, userId |-> ins.userId, projectId |-> ins.projectId.v,
                completed |-> IF ins.completed = "absent" THEN TaskCompletedDefault
                              ELSE ins.completed,
                status |-> IF ins.status = "absent" THEN TaskStatusDefault ELSE ins.status,
                createdAt |-> t,
                completedAt |-> NullTs])

\* the body has no column to set: db.update().set({}) throws
NothingToSet(upd) ==
    /\ upd.id = NoTaskId
    /\ upd.createdAt = AbsentTs
    /\ upd.userId = NoUserId
    /\ upd.projectId.t = "absent"
    /\ upd.completed = "absent"
    /\ upd.status = "absent"
    /\ upd.completedAt = AbsentTs

\* tasks without its foreign keys: no statement violates one
ForeignKeyViolation_None(P, upd) == FALSE

\* the insert or update statement violates a foreign key of tasks
ForeignKeyViolation(P, upd) ==
    \/ upd.userId # NoUserId /\ upd.userId \notin Users
    \/ upd.projectId.t # "absent" /\ upd.projectId.v \notin DOMAIN P

\* the select of updateTask and its test: completedAt is to be stamped
DbStamp(T, id, upd) ==
    upd.completed = "true" /\ id \in DOMAIN T /\ ~IsCompleted(T[id].completed)

\* set() maps the value of a timestamp column with toISOString(): the text
\* that a JSON body carries for a date has no such method, so a text that
\* reaches set() throws; created_at is NOT NULL, so its null is refused.
\* completedAt reaches set() as the body gave it unless updateTask
\* overwrote it with new Date() or null
TimestampError(upd, stamp) ==
    \/ upd.createdAt # AbsentTs
    \/ /\ upd.completedAt >= 0
       /\ upd.completed # "false"
       /\ ~stamp

\* the update gives the row the primary key of another row
PrimaryKeyViolation(T, id, upd) ==
    upd.id # NoTaskId /\ upd.id # id /\ upd.id \in DOMAIN T

\* update ... returning: the row is found under its primary key afterwards
SetRow(T, id, row) ==
    [tasks |-> Put(Remove(T, id), row.id, row), result |-> "row", id |-> row.id]

\* updateTask from the select on: stamp is what the select and its test
\* gave; the update statement finds the row or not
DbSetTask(P, T, id, upd, stamp, t) ==
    LET stamped == IF stamp THEN [upd EXCEPT !.completedAt = t] ELSE upd
        updateData == IF upd.completed = "false"
                      THEN [stamped EXCEPT !.completedAt = NullTs] ELSE stamped
    IN  IF NothingToSet(updateData) \/ TimestampError(upd, stamp)
        THEN [tasks |-> T, result |-> "error", id |-> id]
        ELSE IF id \notin DOMAIN T THEN [tasks |-> T, result |-> "undefined", id |-> id]
        ELSE IF \/ ForeignKeyViolation(P, updateData)
                \/ PrimaryKeyViolation(T, id, updateData)
        THEN [tasks |-> T, result |-> "error", id |-> id]
        ELSE SetRow(T, id, Merge(T[id], updateData))

\* updateTask without the statement that clears completedAt
DbUpdateTask_NoClear(P, T, id, upd, t) ==
    LET updateData == IF upd.completed = "true" /\ id \in DOMAIN T
                                                /\ ~IsCompleted(T[id].completed)
                      THEN [upd EXCEPT !.completedAt = t] ELSE upd
    IN  IF NothingToSet(updateData) \/ TimestampError(upd, DbStamp(T, id, upd))
        THEN [tasks |-> T, result |-> "error", id |-> id]
        ELSE IF id \notin DOMAIN T THEN [tasks |-> T, result |-> "undefined", id |-> id]
        ELSE IF \/ ForeignKeyViolation(P, updateData)
                \/ PrimaryKeyViolation(T, id, updateData)
        THEN [tasks |-> T, result |-> "error", id |-> id]
        ELSE SetRow(T, id, Merge(T[id], updateData))

DbUpdateTask(P, T, id, upd, t) == DbSetTask(P, T, id, upd, DbStamp(T, id, upd), t)

\* completeTask leaving the status column alone
DbCompleteTask_NoStatus(T, id, t) ==
    IF id \notin DOMAIN T THEN [tasks |-> T, result |-> "undefined", id |-> id]
    ELSE [tasks |-> Put(T, id, [T[id] EXCEPT !.completed = "true", !.completedAt = t]),
          result |-> "row", id |-> id]

DbCompleteTask(T, id, t) ==
    IF id \notin DOMAIN T THEN [tasks |-> T, result |-> "undefined", id |-> id]
    ELSE [tasks |-> Put(T, id, [T[id] EXCEPT !.completed = "true",
                                             !.status = "completed",
                                             !.completedAt = t]),
          result |-> "row", id |-> id]


----------------------------------------------------------------------------
(* The storage object the handlers use: storage.ts exports one IStorage.   *)

\* getProject(x) for a JS value x: the id of the project found, 0 for
\* undefined.  Map.get compares keys strictly, so a string finds nothing;
\* the integer column of the database compares the text of the parameter.
GetProjectId(P, x) ==
    IF backend = "mem"
    THEN IF x.t = "num" /\ x.v \in DOMAIN P THEN x.v ELSE 0
    ELSE IF x.t # "absent" /\ x.v \in DOMAIN P THEN x.v ELSE 0

GetProjectsByUserId(P, userId) ==
    IF backend = "mem" THEN MemGetProjectsByUserId(P, userId)
    ELSE DbGetProjectsByUserId(P, userId)

GetTasksByUserId(T, userId) ==
    IF backend = "mem" THEN MemGetTasksByUserId(T, userId) ELSE DbGetTasksByUserId(T, userId)

GetTasksByProjectId(T, projectId) ==
    IF backend = "mem" THEN MemGetTasksByProjectId(T, projectId)
    ELSE DbGetTasksByProjectId(T, projectId)

CountProjectsByUserId(P, userId) ==
    IF backend = "mem" THEN MemCountProjectsByUserId(P, userId)
    ELSE DbCountProjectsByUserId(P, userId)

CreateProject(P, id, ins, t) ==
    IF backend = "mem" THEN MemCreateProject(P, id, ins, t) ELSE DbCreateProject(P, id, ins, t)

UpdateProject(P, id, upd) ==
    IF backend = "mem" THEN MemUpdateProject(P, id, upd) ELSE DbUpdateProject(P, id, upd)

DeleteProject(P, T, id) ==
    IF backend = "mem" THEN MemDeleteProject(P, T, id) ELSE DbDeleteProject(P, T, id)

CreateTask(T, id, ins, t) ==
    IF backend = "mem" THEN MemCreateTask(T, id, ins, t) ELSE DbCreateTask(T, id, ins, t)

UpdateTask(P, T, id, upd, t) ==
    IF backend = "mem" THEN MemUpdateTask(T, id, upd, t) ELSE DbUpdateTask(P, T, id, upd, t)

DeleteTask(T, id) ==
    IF backend = "mem" THEN MemDeleteTask(T, id) ELSE DbDeleteTask(T, id)

CompleteTask(T, id, t) ==
    IF backend = "mem" THEN MemCompleteTask(T, id, t) ELSE DbCompleteTask(T, id, t)

----------------------------------------------------------------------------
(* server/routes.ts.  u is the authenticated principal, req.user!.id.      *)

\* Guard without the comparison of userId with the principal
Guard_NoOwnerCheck(E, id, u) ==
    IF id \notin DOMAIN E THEN "NotFound" ELSE "Allowed"

\* Guard answering 403 for an id that no entity has
Guard_ForbiddenWhenAbsent(E, id, u) ==
    IF id \notin DOMAIN E THEN "Forbidden"
    ELSE IF E[id].userId # u THEN "Forbidden"
    ELSE "Allowed"

\* the check every handler of an entity makes: 404 before 403
Guard(E, id, u) ==
    IF id \notin DOMAIN E THEN "NotFound"
    ELSE IF E[id].userId # u THEN "Forbidden"
    ELSE "Allowed"

\* the quota test with > for >=
QuotaReached_OffByOne(projectCount) == projectCount > MaxProjectsPerUser

\* projectCount >= 4
QuotaReached(projectCount) == projectCount >= MaxProjectsPerUser

\* the spread the other way round, { userId, ...req.body }: a userId of the
\* body wins
WithPrincipal_BodyWins(body, u) ==
    IF body.userId # NoUserId THEN body ELSE [body EXCEPT !.userId = u]

\* { ...req.body, userId }: the principal replaces any userId of the body
WithPrincipal(body, u) == [body EXCEPT !.userId = u]

\* app.get("/api/projects/:id")
GetProjectReq(u, id) ==
    /\ resp' = IF Guard(projects, id, u) = "Allowed"
               THEN Response("getProject", u, id, "OK", ProjectBody(projects[id]))
               ELSE Response("getProject", u, id, Guard(projects, id, u), NoBody)
    /\ UNCHANGED <<calls, backend, store, now>>

\* the create handler with the validation before the quota test
CreateProjectReq_ValidateFirst(u, body, maxId) ==
    IF ~ProjectValid(body)
    THEN /\ resp' = Response("createProject", u, 0, "ValidationError", NoBody)
         /\ UNCHANGED <<calls, backend, store, now>>
    ELSE IF QuotaReached(CountProjectsByUserId(projects, u))
    THEN /\ resp' = Response("createProject", u, 0, "QuotaExceeded", NoBody)
         /\ UNCHANGED <<calls, backend, store, now>>
    ELSE /\ projectIdCounter <= maxId
         /\ projects' = CreateProject(projects, projectIdCounter,
                                      ProjectParse(WithPrincipal(body, u)), now)
         /\ projectIdCounter' = NextId(projectIdCounter)
         /\ resp' = Response("createProject", u, 0, "OK", ProjectBody(projects'[projectIdCounter]))
         /\ UNCHANGED <<calls, backend, tasks, taskIdCounter, now>>

\* app.post("/api/projects"); maxId bounds the ids the model hands out
CreateProjectReq(u, body, maxId) ==
    IF QuotaReached(CountProjectsByUserId(projects, u))
    THEN /\ resp' = Response("createProject", u, 0, "QuotaExceeded", NoBody)
         /\ UNCHANGED <<calls, backend, store, now>>
    ELSE IF ~ProjectValid(body)
    THEN /\ resp' = Response("createProject", u, 0, "ValidationError", NoBody)
         /\ UNCHANGED <<calls, backend, store, now>>
    ELSE /\ projectIdCounter <= maxId
         /\ projects' = CreateProject(projects, projectIdCounter,
                                      ProjectParse(WithPrincipal(body, u)), now)
         /\ projectIdCounter' = NextId(projectIdCounter)
         /\ resp' = Response("createProject", u, 0, "OK", ProjectBody(projects'[projectIdCounter]))
         /\ UNCHANGED <<calls, backend, tasks, taskIdCounter, now>>

\* app.put("/api/projects/:id")
UpdateProjectReq(u, id, body) ==
    IF Guard(projects, id, u) # "Allowed"
    THEN /\ resp' = Response("updateProject", u, id, Guard(projects, id, u), NoBody)
         /\ UNCHANGED <<calls, backend, store, now>>
    ELSE IF ~ProjectValid(body)
    THEN /\ resp' = Response("updateProject", u, id, "ValidationError", NoBody)
         /\ UNCHANGED <<calls, backend, store, now>>
    ELSE /\ projects' = UpdateProject(projects, id, ProjectParse(WithPrincipal(body, u)))
         /\ resp' = Response("updateProject", u, id, "OK", ProjectBody(projects'[id]))
         /\ UNCHANGED <<calls, backend, tasks, projectIdCounter, taskIdCounter, now>>

\* app.delete("/api/projects/:id")
DeleteProjectReq(u, id) ==
    IF Guard(projects, id, u) # "Allowed"
    THEN /\ resp' = Response("deleteProject", u, id, Guard(projects, id, u), NoBody)
         /\ UNCHANGED <<calls, backend, store, now>>
    ELSE /\ projects' = DeleteProject(projects, tasks, id).projects
         /\ tasks' = DeleteProject(projects, tasks, id).tasks
         /\ resp' = Response("deleteProject", u, id, "OK", NoBody)
         /\ UNCHANGED <<calls, backend, projectIdCounter, taskIdCounter, now>>

\* app.get("/api/tasks/:id")
GetTaskReq(u, id) ==
    /\ resp' = IF Guard(tasks, id, u) = "Allowed"
               THEN Response("getTask", u, id, "OK", TaskBody(tasks[id]))
               ELSE Response("getTask", u, id, Guard(tasks, id, u), NoBody)
    /\ UNCHANGED <<calls, backend, store, now>>

\* app.post("/api/tasks"); maxId bounds the ids the model hands out
CreateTaskReq(u, body, maxId) ==
    IF ~TaskValid(body)
    THEN /\ resp' = Response("createTask", u, 0, "ValidationError", NoBody)
         /\ UNCHANGED <<calls, backend, store, now>>
    ELSE IF Guard(projects, GetProjectId(projects, body.projectId), u) # "Allowed"
    THEN /\ resp' = Response("createTask", u, 0,
                             Guard(projects, GetProjectId(projects, body.projectId), u),
                             NoBody)
         /\ UNCHANGED <<calls, backend, store, now>>
    ELSE /\ taskIdCounter <= maxId
         /\ taskIdCounter' = NextId(taskIdCounter)
         /\ IF backend = "db" /\ taskIdCounter \in DOMAIN tasks
            THEN /\ resp' = Response("createTask", u, 0, "InternalError", NoBody)
                 /\ UNCHANGED tasks
            ELSE /\ tasks' = CreateTask(tasks, taskIdCounter, WithPrincipal(body, u), now)
                 /\ resp' = Response("createTask", u, 0, "OK", TaskBody(tasks'[taskIdCounter]))
         /\ UNCHANGED <<calls, backend, projects, projectIdCounter, now>>

\* res.json(updatedTask): the task; a 200 without a body when the store
\* returned undefined; the error handler when the store threw
WriteResponse(op, u, id, r) ==
    IF r.result = "row" THEN Response(op, u, id, "OK", TaskBody(r.tasks[r.id]))
    ELSE IF r.result = "undefined" THEN Response(op, u, id, "OK", NoBody)
    ELSE Response(op, u, id, "InternalError", NoBody)

\* app.put("/api/tasks/:id"): req.body goes to updateTask as it came
UpdateTaskReq(u, id, body) ==
    IF Guard(tasks, id, u) # "Allowed"
    THEN /\ resp' = Response("updateTask", u, id, Guard(tasks, id, u), NoBody)
         /\ UNCHANGED <<calls, backend, store, now>>
    ELSE IF /\ Truthy(body.projectId)
            /\ StrictNotEqual(body.projectId, tasks[id].projectId)
            /\ Guard(projects, GetProjectId(projects, body.projectId), u) # "Allowed"
    THEN /\ resp' = Response("updateTask", u, id,
                             Guard(projects, GetProjectId(projects, body.projectId), u),
                             NoBody)
         /\ UNCHANGED <<calls, backend, store, now>>
    ELSE LET r == UpdateTask(projects, tasks, id, body, now)
         IN /\ tasks' = r.tasks
            /\ resp' = WriteResponse("updateTask", u, id, r)
            /\ UNCHANGED <<calls, backend, projects, projectIdCounter, taskIdCounter, now>>

\* app.delete("/api/tasks/:id")
DeleteTaskReq(u, id) ==
    IF Guard(tasks, id, u) # "Allowed"
    THEN /\ resp' = Response("deleteTask", u, id, Guard(tasks, id, u), NoBody)
         /\ UNCHANGED <<calls, backend, store, now>>
    ELSE /\ tasks' = DeleteTask(tasks, id)
         /\ resp' = Response("deleteTask", u, id, "OK", NoBody)
         /\ UNCHANGED <<calls, backend, projects, projectIdCounter, taskIdCounter, now>>

\* app.post("/api/tasks/:id/complete")
CompleteTaskReq(u, id) ==
    IF Guard(tasks, id, u) # "Allowed"
    THEN /\ resp' = Response("completeTask", u, id, Guard(tasks, id, u), NoBody)
         /\ UNCHANGED <<calls, backend, store, now>>
    ELSE LET r == CompleteTask(tasks, id, now)
         IN /\ tasks' = r.tasks
            /\ resp' = WriteResponse("completeTask", u, id, r)
            /\ UNCHANGED <<calls, backend, projects, projectIdCounter, taskIdCounter, now>>

\* the stats with every task whose status is "in-progress" counted as in
\* progress, completed or not
Stats_ByStatusOnly(userProjects, userTasks) ==
    [totalProjects   |-> Cardinality(userProjects),
     totalTasks      |-> Cardinality(userTasks),
     completedTasks  |-> Cardinality({t \in userTasks : IsCompleted(t.completed)}),
     inProgressTasks |-> Cardinality({t \in userTasks : t.status = "in-progress"})]

\* the four numbers of the stats response, from the projects and the tasks
\* that the two queries of the handler returned
Stats(userProjects, userTasks) ==
    [totalProjects   |-> Cardinality(userProjects),
     totalTasks      |-> Cardinality(userTasks),
     completedTasks  |-> Cardinality({t \in userTasks : IsCompleted(t.completed)}),
     inProgressTasks |-> Cardinality({t \in userTasks :
                            ~IsCompleted(t.completed) /\ t.status = "in-progress"})]

\* app.get("/api/stats")
GetStatsReq(u) ==
    /\ resp' = Response("getStats", u, 0, "OK",
                        StatsBody(Stats({projects[i] : i \in GetProjectsByUserId(projects, u)},
                                        {tasks[i] : i \in GetTasksByUserId(tasks, u)})))
    /\ UNCHANGED <<calls, backend, store, now>>

\* What the reads of principal u answer on the store (P, T): the status and
\* the body of the response.

\* app.get("/api/projects")
ListProjectsResult(P, u) ==
    [status |-> "OK", body |-> {P[i] : i \in GetProjectsByUserId(P, u)}]

\* app.get("/api/tasks"); projectId is parseInt of the query parameter, 0
\* when the request has none
ListTasksResult(P, T, u, projectId) ==
    IF projectId # 0
    THEN IF Guard(P, projectId, u) # "Allowed"
         THEN [status |-> Guard(P, projectId, u), body |-> {}]
         ELSE [status |-> "OK", body |-> {T[i] : i \in GetTasksByProjectId(T, projectId)}]
    ELSE [status |-> "OK", body |-> {T[i] : i \in GetTasksByUserId(T, u)}]

\* app.get("/api/tasks/:id")
GetTaskResult(T, u, id) ==
    IF Guard(T, id, u) # "Allowed"
    THEN [status |-> Guard(T, id, u), body |-> NoBody]
    ELSE [status |-> "OK", body |-> TaskBody(T[id])]

\* app.get("/api/stats")
GetStatsResult(P, T, u) ==
    [status |-> "OK",
     body |-> Stats({P[i] : i \in GetProjectsByUserId(P, u)},
                    {T[i] : i \in GetTasksByUserId(T, u)})]

\* the client has the response: await apiRequest(...) returns, and only
\* then is the next request made (requests issued one at a time)
Receive ==
    /\ resp # NoResponse
    /\ resp' = NoResponse
    /\ UNCHANGED <<calls, backend, store, now>>

\* time passes between requests; new Date() never goes back
Tick ==
    /\ now < MaxTime
    /\ now' = now + 1
    /\ UNCHANGED <<calls, backend, store, resp>>

Idle == resp = NoResponse

----------------------------------------------------------------------------
(* Overlapping requests.  A handler awaits each storage call; with          *)
(* DatabaseStorage the call is a round trip to the database, and the       *)
(* handlers of other requests run meanwhile.  A statement of the database  *)
(* is atomic.  The methods of MemStorage await nothing but each other, so  *)
(* a handler over MemStorage runs to its response in one turn of the event *)
(* loop.                                                                   *)

\* the requests that the server can be handling at once
Slots == 1..MaxCalls

\* a handler in flight: the request, where the handler stands (pc), and
\* what it has read (count)
Call(op, u, id, body, pc, count) ==
    [op |-> op, by |-> u, id |-> id, body |-> body, pc |-> pc, count |-> count]

NoCall == Call("none", 0, 0, NoBody, "idle", 0)

\* slot s may take a step: over MemStorage only when no other handler is
\* between two of its steps
MayRun(s) ==
    backend = "mem" => \A r \in Slots \ {s} : calls[r] = NoCall

\* What a get-stats request in flight has read, and the stores that have
\* existed since it began (as the stats of its principal): the history
\* against which its answer is stated.
StatsRead(userProjects, seen) == [kind |-> "read", projects |-> userProjects, seen |-> seen]

\* the calls C after a step that leaves the store (P, T)
Observe(C, P, T) ==
    [r \in Slots |->
        IF C[r].op = "getStats"
        THEN [C[r] EXCEPT !.body = StatsRead(@.projects,
                                             @.seen \cup {GetStatsResult(P, T, C[r].by).body})]
        ELSE C[r]]

\* app.post("/api/projects") up to the first await: the count is read
CreateProjectCount(s, u, body, maxId) ==
    /\ calls[s] = NoCall
    /\ MayRun(s)
    /\ projectIdCounter + Cardinality({r \in Slots : calls[r].op = "createProject"}) <= maxId
    /\ calls' = [calls EXCEPT ![s] = Call("createProject", u, 0, body, "counted",
                                          CountProjectsByUserId(projects, u))]
    /\ UNCHANGED <<backend, store, now, resp>>

\* app.post("/api/projects") from the count on: the quota test on the count
\* that was read, the validation, the insert
CreateProjectInsert(s) ==
    LET c == calls[s]
    IN  /\ c.op = "createProject"
        /\ c.pc = "counted"
        /\ IF QuotaReached(c.count)
           THEN /\ resp' = Response("createProject", c.by, 0, "QuotaExceeded", NoBody)
                /\ UNCHANGED <<backend, store, now>>
           ELSE IF ~ProjectValid(c.body)
           THEN /\ resp' = Response("createProject", c.by, 0, "ValidationError", NoBody)
                /\ UNCHANGED <<backend, store, now>>
           ELSE /\ projects' = CreateProject(projects, projectIdCounter,
                                             ProjectParse(WithPrincipal(c.body, c.by)), now)
                /\ projectIdCounter' = NextId(projectIdCounter)
                /\ resp' = Response("createProject", c.by, 0, "OK",
                                    ProjectBody(projects'[projectIdCounter]))
                /\ UNCHANGED <<backend, tasks, taskIdCounter, now>>
        /\ calls' = Observe([calls EXCEPT ![s] = NoCall], projects', tasks')

\* app.delete("/api/projects/:id") up to the delete: getProject and the
\* two checks
DeleteProjectGuard(s, u, id) ==
    /\ calls[s] = NoCall
    /\ MayRun(s)
    /\ IF Guard(projects, id, u) # "Allowed"
       THEN /\ resp' = Response("deleteProject", u, id, Guard(projects, id, u), NoBody)
            /\ UNCHANGED calls
       ELSE /\ calls' = [calls EXCEPT ![s] = Call("deleteProject", u, id, NoBody, "guarded", 0)]
            /\ UNCHANGED resp
    /\ UNCHANGED <<backend, store, now>>

\* app.delete("/api/projects/:id"): storage.deleteProject and the 204
DeleteProjectDelete(s) ==
    LET c == calls[s]
    IN  /\ c.op = "deleteProject"
        /\ c.pc = "guarded"
        /\ projects' = DeleteProject(projects, tasks, c.id).projects
        /\ tasks' = DeleteProject(projects, tasks, c.id).tasks
        /\ resp' = Response("deleteProject", c.by, c.id, "OK", NoBody)
        /\ UNCHANGED <<backend, projectIdCounter, taskIdCounter, now>>
        /\ calls' = Observe([calls EXCEPT ![s] = NoCall], projects', tasks')

\* app.post("/api/tasks") up to the insert: the validation, getProject and
\* the two checks
CreateTaskGuard(s, u, body, maxId) ==
    /\ calls[s] = NoCall
    /\ MayRun(s)
    /\ taskIdCounter + Cardinality({r \in Slots : calls[r].op = "createTask"}) <= maxId
    /\ IF ~TaskValid(body)
       THEN /\ resp' = Response("createTask", u, 0, "ValidationError", NoBody)
            /\ UNCHANGED calls
       ELSE IF Guard(projects, GetProjectId(projects, body.projectId), u) # "Allowed"
       THEN /\ resp' = Response("createTask", u, 0,
                                Guard(projects, GetProjectId(projects, body.projectId), u),
                                NoBody)
            /\ UNCHANGED calls
       ELSE /\ calls' = [calls EXCEPT ![s] = Call("createTask", u, 0, body, "guarded", 0)]
            /\ UNCHANGED resp
    /\ UNCHANGED <<backend, store, now>>

\* app.post("/api/tasks"): storage.createTask and the 201; the insert of
\* DatabaseStorage fails on a foreign key that has no row, and the id of
\* the serial column is used up all the same
CreateTaskInsert(s) ==
    LET c == calls[s]
        taskData == WithPrincipal(c.body, c.by)
    IN  /\ c.op = "createTask"
        /\ c.pc = "guarded"
        /\ taskIdCounter' = NextId(taskIdCounter)
        /\ IF backend = "db" /\ (\/ ForeignKeyViolation(projects, taskData)
                              \/ taskIdCounter \in DOMAIN tasks)
           THEN /\ resp' = Response("createTask", c.by, 0, "InternalError", NoBody)
                /\ UNCHANGED tasks
           ELSE /\ tasks' = CreateTask(tasks, taskIdCounter, taskData, now)
                /\ resp' = Response("createTask", c.by, 0, "OK", TaskBody(tasks'[taskIdCounter]))
        /\ UNCHANGED <<backend, projects, projectIdCounter, now>>
        /\ calls' = Observe([calls EXCEPT ![s] = NoCall], projects', tasks')

\* app.put("/api/tasks/:id") up to the second await: getTask and the two
\* checks; pc "task" when the project of the body is to be looked up
UpdateTaskGuard(s, u, id, body) ==
    /\ calls[s] = NoCall
    /\ MayRun(s)
    /\ IF Guard(tasks, id, u) # "Allowed"
       THEN /\ resp' = Response("updateTask", u, id, Guard(tasks, id, u), NoBody)
            /\ UNCHANGED calls
       ELSE /\ calls' = [calls EXCEPT ![s] =
                           Call("updateTask", u, id, body,
                                IF /\ Truthy(body.projectId)
                                   /\ StrictNotEqual(body.projectId, tasks[id].projectId)
                                THEN "task" ELSE "guarded", 0)]
            /\ UNCHANGED resp
    /\ UNCHANGED <<backend, store, now>>

\* app.put("/api/tasks/:id"): getProject(req.body.projectId) and the two
\* checks
UpdateTaskProject(s) ==
    LET c == calls[s]
        g == Guard(projects, GetProjectId(projects, c.body.projectId), c.by)
    IN  /\ c.op = "updateTask"
        /\ c.pc = "task"
        /\ IF g # "Allowed"
           THEN /\ resp' = Response("updateTask", c.by, c.id, g, NoBody)
                /\ calls' = [calls EXCEPT ![s] = NoCall]
           ELSE /\ calls' = [calls EXCEPT ![s].pc = "guarded"]
                /\ UNCHANGED resp
        /\ UNCHANGED <<backend, store, now>>

\* DatabaseStorage.updateTask, completed === true: the select and its test
UpdateTaskSelect(s) ==
    LET c == calls[s]
    IN  /\ backend = "db"
        /\ c.op = "updateTask"
        /\ c.pc = "guarded"
        /\ c.body.completed = "true"
        /\ calls' = [calls EXCEPT ![s].pc = "selected",
                                  ![s].count = IF DbStamp(tasks, c.id, c.body) THEN 1 ELSE 0]
        /\ UNCHANGED <<backend, store, now, resp>>

\* app.put("/api/tasks/:id"): the write of updateTask and res.json
UpdateTaskWrite(s) ==
    LET c == calls[s]
        r == IF backend = "mem" THEN MemUpdateTask(tasks, c.id, c.body, now)
             ELSE DbSetTask(projects, tasks, c.id, c.body, c.count = 1, now)
    IN  /\ c.op = "updateTask"
        /\ \/ c.pc = "selected"
           \/ c.pc = "guarded" /\ ~(backend = "db" /\ c.body.completed = "true")
        /\ tasks' = r.tasks
        /\ resp' = WriteResponse("updateTask", c.by, c.id, r)
        /\ UNCHANGED <<backend, projects, projectIdCounter, taskIdCounter, now>>
        /\ calls' = Observe([calls EXCEPT ![s] = NoCall], projects', tasks')

\* app.post("/api/tasks/:id/complete") up to the write: getTask and the two
\* checks
CompleteTaskGuard(s, u, id) ==
    /\ calls[s] = NoCall
    /\ MayRun(s)
    /\ IF Guard(tasks, id, u) # "Allowed"
       THEN /\ resp' = Response("completeTask", u, id, Guard(tasks, id, u), NoBody)
            /\ UNCHANGED calls
       ELSE /\ calls' = [calls EXCEPT ![s] = Call("completeTask", u, id, NoBody, "guarded", 0)]
            /\ UNCHANGED resp
    /\ UNCHANGED <<backend, store, now>>

\* app.post("/api/tasks/:id/complete"): storage.completeTask and res.json
CompleteTaskWrite(s) ==
    LET c == calls[s]
        r == CompleteTask(tasks, c.id, now)
    IN  /\ c.op = "completeTask"
        /\ c.pc = "guarded"
        /\ tasks' = r.tasks
        /\ resp' = WriteResponse("completeTask", c.by, c.id, r)
        /\ UNCHANGED <<backend, projects, projectIdCounter, taskIdCounter, now>>
        /\ calls' = Observe([calls EXCEPT ![s] = NoCall], projects', tasks')

\* app.delete("/api/tasks/:id") up to the delete: getTask and the two checks
DeleteTaskGuard(s, u, id) ==
    /\ calls[s] = NoCall
    /\ MayRun(s)
    /\ IF Guard(tasks, id, u) # "Allowed"
       THEN /\ resp' = Response("deleteTask", u, id, Guard(tasks, id, u), NoBody)
            /\ UNCHANGED calls
       ELSE /\ calls' = [calls EXCEPT ![s] = Call("deleteTask", u, id, NoBody, "guarded", 0)]
            /\ UNCHANGED resp
    /\ UNCHANGED <<backend, store, now>>

\* app.delete("/api/tasks/:id"): storage.deleteTask and the 204
DeleteTaskDelete(s) ==
    LET c == calls[s]
    IN  /\ c.op = "deleteTask"
        /\ c.pc = "guarded"
        /\ tasks' = DeleteTask(tasks, c.id)
        /\ resp' = Response("deleteTask", c.by, c.id, "OK", NoBody)
        /\ UNCHANGED <<backend, projects, projectIdCounter, taskIdCounter, now>>
        /\ calls' = Observe([calls EXCEPT ![s] = NoCall], projects', tasks')

\* app.get("/api/stats") up to the second await: getProjectsByUserId
StatsProjects(s, u) ==
    /\ calls[s] = NoCall
    /\ MayRun(s)
    /\ calls' = [calls EXCEPT ![s] =
                    Call("getStats", u, 0,
                         StatsRead({projects[i] : i \in GetProjectsByUserId(projects, u)},
                                   {GetStatsResult(projects, tasks, u).body}),
                         "projects", 0)]
    /\ UNCHANGED <<backend, store, now, resp>>

\* app.get("/api/stats"): getTasksByUserId, the four counts and res.json
StatsTasks(s) ==
    LET c == calls[s]
    IN  /\ c.op = "getStats"
        /\ c.pc = "projects"
        /\ calls' = [calls EXCEPT ![s] = NoCall]
        /\ resp' = Response("getStats", c.by, 0, "OK",
                            StatsBody(Stats(c.body.projects,
                                            {tasks[i] : i \in GetTasksByUserId(tasks, c.by)})))
        /\ UNCHANGED <<backend, store, now>>

Init ==
    /\ calls = [s \in Slots |-> NoCall]
    /\ backend \in {"mem", "db"}
    /\ projects = <<>>
    /\ tasks = <<>>
    /\ projectIdCounter = 1
    /\ taskIdCounter = 1
    /\ now = 0
    /\ resp = NoResponse

----------------------------------------------------------------------------
(* Spec: ownership and the guard.  Request bodies vary the keys userId and *)
(* projectId; both principals act on every id.                             *)

ProjectIds == 1..MaxProjectId
TaskIds == 1..MaxTaskId

\* a valid and an invalid name
ProjectBodies ==
    [name : {"", "A"}, description : {"absent"}, status : {"absent"},
     dueDate : {AbsentTs}, userId : {NoUserId}, createdAt : {AbsentTs}]

\* projectId values of a body: absent, 0, the ids, a decimal string
BodyProjectIds ==
    {Absent} \cup {Num(n) : n \in 0..MaxProjectId} \cup {Str(n) : n \in 1..MaxProjectId}

CreateTaskBodies ==
    [titleOk : BOOLEAN, projectId : BodyProjectIds, userId : {NoUserId} \cup Users,
     completed : {"absent"}, status : {"absent"}]

UpdateTaskBodies ==
    [userId : {NoUserId} \cup Users, projectId : BodyProjectIds,
     completed : {"absent"}, status : {"absent"}, completedAt : {AbsentTs},
     id : {NoTaskId}, createdAt : {AbsentTs}]

Next ==
    \/ \E u \in Users, id \in ProjectIds : Idle /\ GetProjectReq(u, id)
    \/ \E u \in Users, body \in ProjectBodies : Idle /\ CreateProjectReq(u, body, MaxProjectId)
    \/ \E u \in Users, id \in ProjectIds, body \in ProjectBodies :
          Idle /\ UpdateProjectReq(u, id, body)
    \/ \E u \in Users, id \in ProjectIds : Idle /\ DeleteProjectReq(u, id)
    \/ \E u \in Users, id \in TaskIds : Idle /\ GetTaskReq(u, id)
    \/ \E u \in Users, body \in CreateTaskBodies : Idle /\ CreateTaskReq(u, body, MaxTaskId)
    \/ \E u \in Users, id \in TaskIds, body \in UpdateTaskBodies :
          Idle /\ UpdateTaskReq(u, id, body)
    \/ \E u \in Users, id \in TaskIds : Idle /\ DeleteTaskReq(u, id)
    \/ \E u \in Users, id \in TaskIds : Idle /\ CompleteTaskReq(u, id)
    \/ Receive

Spec == Init /\ [][Next]_vars

TypeOK ==
    /\ backend \in {"mem", "db"}
    /\ now \in 0..MaxTime
    /\ projectIdCounter \in 1..(MaxQuotaProjectId + 1)
    /\ taskIdCounter \in 1..(MaxTaskId + 1)

----------------------------------------------------------------------------
(* Claims checked under Spec *)

\* the owner of the project a task points at, 0 when there is no such project
ProjectOwner(P, task) == IF task.projectId \in DOMAIN P THEN P[task.projectId].userId ELSE 0

\* C1 -- Ownership invariant: every stored task's userId equals the userId
\* of the project identified by the task's projectId.
C1_OwnershipInvariant ==
    \A i \in DOMAIN tasks :
        tasks[i].projectId \in DOMAIN projects => tasks[i].userId = ProjectOwner(projects, tasks[i])

ProjectOps == {"getProject", "updateProject", "deleteProject"}
TaskOps == {"getTask", "updateTask", "deleteTask", "completeTask"}

\* this step is a request of ops; its response is resp'
Request(ops) == resp' # resp /\ resp'.op \in ops

\* C3 -- Authorization: a get, update, delete or complete request by a
\* principal on a project or task whose userId is another principal returns
\* Forbidden, returns no entity, and leaves the store unchanged.
C3_Authorization ==
    [][/\ (/\ Request(ProjectOps)
           /\ resp'.id \in DOMAIN projects
           /\ projects[resp'.id].userId # resp'.by)
          => (resp'.status = "Forbidden" /\ resp'.body = NoBody /\ UNCHANGED store)
       /\ (/\ Request(TaskOps)
           /\ resp'.id \in DOMAIN tasks
           /\ tasks[resp'.id].userId # resp'.by)
          => (resp'.status = "Forbidden" /\ resp'.body = NoBody /\ UNCHANGED store)]_vars

C3_Witness ==
    /\ resp.status = "Forbidden"
    /\ resp.op = "completeTask"
    /\ resp.id \in DOMAIN tasks
    /\ tasks[resp.id].userId # resp.by
    /\ resp.body = NoBody

\* C5 -- Guard decision: a request on a project or task id is NotFound when
\* no entity has the id (whoever asks), Forbidden when the entity's userId
\* is not the principal, and writes or returns the entity only when the
\* userId is the principal.
C5_GuardDecision ==
    [][/\ Request(ProjectOps) =>
            /\ resp'.id \notin DOMAIN projects => resp'.status = "NotFound"
            /\ (resp'.id \in DOMAIN projects /\ projects[resp'.id].userId # resp'.by)
                  => resp'.status = "Forbidden"
            /\ (resp'.status = "OK" \/ store' # store)
                  => (resp'.id \in DOMAIN projects /\ projects[resp'.id].userId = resp'.by)
       /\ Request(TaskOps) =>
            /\ resp'.id \notin DOMAIN tasks => resp'.status = "NotFound"
            /\ (resp'.id \in DOMAIN tasks /\ tasks[resp'.id].userId # resp'.by)
                  => resp'.status = "Forbidden"
            /\ (resp'.status = "OK" \/ store' # store)
                  => (resp'.id \in DOMAIN tasks /\ tasks[resp'.id].userId = resp'.by)]_vars

\* a delete of a task that was deleted before
C5_Witness ==
    /\ resp.op = "deleteTask"
    /\ resp.status = "NotFound"
    /\ resp.id \notin DOMAIN tasks
    /\ resp.id < taskIdCounter
    /\ projects # <<>>

\* C6 -- Task move: a task update that changes projectId succeeds only if
\* the new project exists and is owned by the principal, and after any
\* successful task update the task's projectId is that of an existing
\* project owned by the principal.
C6_TaskMove ==
    [][(Request({"updateTask"}) /\ resp'.status = "OK")
       => /\ tasks'[resp'.id].projectId \in DOMAIN projects
          /\ projects[tasks'[resp'.id].projectId].userId = resp'.by]_vars

\* the valid project a create-task body names: 0 when the body is invalid
\* or no project has the id
NamedProject(body) == IF TaskValid(body) /\ body.projectId.v \in DOMAIN projects
                      THEN body.projectId.v ELSE 0

\* C7 -- Create task: the request succeeds only if the project exists and is
\* owned by the principal; a valid request is NotFound without the project
\* and Forbidden on another principal's project, and stores nothing then; the
\* stored task's userId is the principal whatever userId the body has.
C7_CreateTask ==
    [][Request({"createTask"}) =>
         /\ resp'.status # "OK" => UNCHANGED store
         /\ \A body \in CreateTaskBodies :
               CreateTaskReq(resp'.by, body, MaxTaskId) =>
                  /\ resp'.status = "OK" =>
                        /\ NamedProject(body) # 0
                        /\ projects[NamedProject(body)].userId = resp'.by
                        /\ DOMAIN tasks' = DOMAIN tasks \cup {taskIdCounter}
                        /\ tasks'[taskIdCounter].userId = resp'.by
                        /\ tasks'[taskIdCounter].projectId = NamedProject(body)
                  /\ (TaskValid(body) /\ NamedProject(body) = 0)
                        => resp'.status = "NotFound"
                  /\ (NamedProject(body) # 0 /\ projects[NamedProject(body)].userId # resp'.by)
                        => resp'.status = "Forbidden"]_vars

\* a task was created by a request whose body names another user
C7_Witness ==
    /\ resp.op = "createTask"
    /\ resp.status = "OK"
    /\ resp.by = 2
    /\ tasks[resp.body.ent.id].userId = 2
    /\ projects[resp.body.ent.projectId].userId = 2

\* C16 -- Referential integrity: the projectId of every stored task is the
\* id of a stored project, after any sequence of create-task, update-task,
\* delete-project and delete-task requests.
C16_ReferentialIntegrity ==
    \A t \in DOMAIN tasks : tasks[t].projectId \in DOMAIN projects

\* C23 -- Store equivalence for cascade: in every store state and for every
\* project id (one that matches no project included) MemStorage.deleteProject
\* and DatabaseStorage.deleteProject return the same boolean and leave the
\* same projects and the same tasks.
C23_DeleteProjectEquivalence ==
    \A id \in 0..(MaxProjectId + 1) :
        MemDeleteProject(projects, tasks, id) = DbDeleteProject(projects, tasks, id)

\* a result as the claims on what a principal can see compare it: the two
\* refusals of the guard count as one
Outcome(r) ==
    IF r.status \in {"NotFound", "Forbidden"} THEN [r EXCEPT !.status = "refused"] ELSE r

\* C25 -- Cross-principal non-interference: a request of principal a,
\* whatever its body, leaves what another principal b gets from
\* list-projects, list-tasks (of all of b's tasks and of each project),
\* get-task and get-stats as it was (a refusal is one result, be it
\* NotFound or Forbidden).
C25_NonInterference ==
    [][\A b \in Users :
         (resp' # resp /\ resp'.by \in Users \ {b})
         => /\ ListProjectsResult(projects', b) = ListProjectsResult(projects, b)
            /\ \A p \in 0..MaxProjectId :
                  Outcome(ListTasksResult(projects', tasks', b, p))
                  = Outcome(ListTasksResult(projects, tasks, b, p))
            /\ \A t \in TaskIds :
                  Outcome(GetTaskResult(tasks', b, t)) = Outcome(GetTaskResult(tasks, b, t))
            /\ GetStatsResult(projects', tasks', b) = GetStatsResult(projects, tasks, b)]_vars

----------------------------------------------------------------------------
(* SpecCascade: projects with several tasks.  Tasks are created in, moved  *)
(* between and deleted with the projects of two principals.                *)

CascadeTaskIds == 1..MaxCascadeTaskId

CascadeCreateTaskBodies ==
    [titleOk : {TRUE}, projectId : {Num(n) : n \in ProjectIds}, userId : {NoUserId},
     completed : {"absent"}, status : {"absent"}]

CascadeUpdateTaskBodies ==
    [userId : {NoUserId}, projectId : {Num(n) : n \in ProjectIds},
     completed : {"absent"}, status : {"absent"}, completedAt : {AbsentTs},
     id : {NoTaskId}, createdAt : {AbsentTs}]

NextCascade ==
    \/ \E u \in Users, body \in ProjectBodies : Idle /\ CreateProjectReq(u, body, MaxProjectId)
    \/ \E u \in Users, id \in ProjectIds : Idle /\ DeleteProjectReq(u, id)
    \/ \E u \in Users, id \in CascadeTaskIds : Idle /\ GetTaskReq(u, id)
    \/ \E u \in Users, body \in CascadeCreateTaskBodies :
          Idle /\ CreateTaskReq(u, body, MaxCascadeTaskId)
    \/ \E u \in Users, id \in CascadeTaskIds, body \in CascadeUpdateTaskBodies :
          Idle /\ UpdateTaskReq(u, id, body)
    \/ \E u \in Users, id \in CascadeTaskIds : Idle /\ DeleteTaskReq(u, id)
    \/ Receive

SpecCascade == Init /\ [][NextCascade]_vars

----------------------------------------------------------------------------
(* SpecQuota: the project requests alone, with ids enough for a fifth and  *)
(* a sixth create.                                                         *)

QuotaProjectIds == 1..MaxQuotaProjectId

NextQuota ==
    \/ \E u \in Users, id \in QuotaProjectIds : Idle /\ GetProjectReq(u, id)
    \/ \E u \in Users, body \in ProjectBodies :
          Idle /\ CreateProjectReq(u, body, MaxQuotaProjectId)
    \/ \E u \in Users, id \in QuotaProjectIds, body \in ProjectBodies :
          Idle /\ UpdateProjectReq(u, id, body)
    \/ \E u \in Users, id \in QuotaProjectIds : Idle /\ DeleteProjectReq(u, id)
    \/ Receive

SpecQuota == Init /\ [][NextQuota]_vars

\* the number of stored projects of user u
Owned(P, u) == Cardinality({i \in DOMAIN P : P[i].userId = u})

\* C2 -- Quota invariant (sequential): no user ever owns more than 4 stored
\* projects; a create-project request by a user who owns 4 fails with
\* QuotaExceeded and leaves the stored projects unchanged.
C2_Quota ==
    [][/\ \A u \in Users : Owned(projects', u) <= 4
       /\ (Request({"createProject"}) /\ Owned(projects, resp'.by) >= 4)
          => (resp'.status = "QuotaExceeded" /\ projects' = projects)]_vars

\* a fifth create was refused
C2_Witness ==
    /\ resp.op = "createProject"
    /\ resp.status = "QuotaExceeded"
    /\ Owned(projects, resp.by) = 4

\* C19 -- Quota release: a create-project request with a valid body succeeds
\* exactly when its user owns fewer than 4 stored projects, and is refused
\* with QuotaExceeded otherwise: the fifth create fails, and a create after
\* a delete succeeds.
C19_QuotaRelease ==
    [][Request({"createProject"})
       => \A body \in ProjectBodies :
             (ProjectValid(body) /\ CreateProjectReq(resp'.by, body, MaxQuotaProjectId))
             => /\ resp'.status = "OK" <=> Owned(projects, resp'.by) < 4
                /\ resp'.status = "QuotaExceeded" <=> Owned(projects, resp'.by) >= 4
                /\ resp'.status = "OK" => Owned(projects', resp'.by) = Owned(projects, resp'.by) + 1
                /\ resp'.status # "OK" => projects' = projects]_vars

\* the user's fifth project was created: the user owns 4 again, so one of
\* the five was deleted in between
C19_Witness ==
    /\ resp.op = "createProject"
    /\ resp.status = "OK"
    /\ resp.body.ent.id = 5
    /\ Owned(projects, resp.by) = 4
    /\ \A u \in Users \ {resp.by} : Owned(projects, u) = 0

----------------------------------------------------------------------------
(* SpecLife: the completion life cycle of a task.  One principal, request  *)
(* bodies that vary completed, status and completedAt, and a clock.        *)

\* the one principal of this specification
LifeUsers == {1}
LifeProjectIds == 1..MaxLifeProjectId
LifeTaskIds == 1..MaxLifeTaskId

LifeProjectBody ==
    [name |-> "A", description |-> "absent", status |-> "absent",
     dueDate |-> AbsentTs, userId |-> NoUserId, createdAt |-> AbsentTs]

LifeCreateTaskBodies ==
    [titleOk : {TRUE}, projectId : {Num(n) : n \in LifeProjectIds}, userId : {NoUserId},
     completed : {"absent", "true", "null"}, status : {"absent"}]

LifeUpdateTaskBodies ==
    [userId : {NoUserId}, projectId : {Absent},
     completed : {"absent", "true", "false"}, status : {"absent", "todo"},
     completedAt : {AbsentTs, NullTs, 0},
     id : {NoTaskId}, createdAt : {AbsentTs}]

NextLife ==
    \/ \E u \in LifeUsers : Idle /\ CreateProjectReq(u, LifeProjectBody, MaxLifeProjectId)
    \/ \E u \in LifeUsers, body \in LifeCreateTaskBodies :
          Idle /\ CreateTaskReq(u, body, MaxLifeTaskId)
    \/ \E u \in LifeUsers, id \in LifeTaskIds : Idle /\ GetTaskReq(u, id)
    \/ \E u \in LifeUsers, id \in LifeTaskIds, body \in LifeUpdateTaskBodies :
          Idle /\ UpdateTaskReq(u, id, body)
    \/ \E u \in LifeUsers, id \in LifeTaskIds : Idle /\ CompleteTaskReq(u, id)
    \/ Receive
    \/ Tick

SpecLife == Init /\ [][NextLife]_vars

\* C8 -- complete(taskId) on an existing task yields a stored task with
\* completed = true, status = "completed" and completedAt = the time of the
\* call, whatever the three were before.
C8_Complete ==
    [][\A id \in LifeTaskIds :
         (id \in DOMAIN tasks /\ CompleteTaskReq(tasks[id].userId, id))
         => /\ resp'.status = "OK"
            /\ resp'.body = TaskBody(tasks'[id])
            /\ tasks'[id].completed = "true"
            /\ tasks'[id].status = "completed"
            /\ tasks'[id].completedAt = now]_vars

\* a task that was in progress is completed, after the clock has moved
C8_Witness ==
    /\ resp.op = "completeTask"
    /\ resp.status = "OK"
    /\ now = MaxTime
    /\ tasks[resp.id].completedAt = now
    /\ tasks[resp.id].status = "completed"
    /\ tasks[resp.id].completed = "true"

\* C10 -- Edge-triggered set: updateTask with completed: true on a stored
\* task whose completed is false or null gives the task completedAt = the
\* time of the call, whatever completedAt the payload carries.
C10_EdgeSet ==
    [][(/\ resp'.op = "updateTask"
        /\ resp'.status = "OK"
        /\ resp'.id \in DOMAIN tasks
        /\ tasks[resp'.id].completed # "true")
       => \A body \in LifeUpdateTaskBodies :
             (body.completed = "true" /\ UpdateTaskReq(resp'.by, resp'.id, body))
             => /\ tasks'[resp'.id].completed = "true"
                /\ tasks'[resp'.id].completedAt = now
                /\ resp'.body = TaskBody(tasks'[resp'.id])]_vars

\* an update has completed a task at a time that no payload carries
C10_Witness ==
    /\ resp.op = "updateTask"
    /\ resp.status = "OK"
    /\ resp.body.ent.completed = "true"
    /\ resp.body.ent.status # "completed"
    /\ resp.body.ent.completedAt = now
    /\ now = MaxTime

\* C11 -- Edge-triggered clear: updateTask with completed: false on a stored
\* task whose completed is true gives the task completed = false and
\* completedAt = null, whatever completedAt the payload carries.
C11_EdgeClear ==
    [][(/\ resp'.op = "updateTask"
        /\ resp'.status = "OK"
        /\ resp'.id \in DOMAIN tasks
        /\ tasks[resp'.id].completed = "true")
       => \A body \in LifeUpdateTaskBodies :
             (body.completed = "false" /\ UpdateTaskReq(resp'.by, resp'.id, body))
             => /\ tasks'[resp'.id].completed = "false"
                /\ tasks'[resp'.id].completedAt = NullTs
                /\ resp'.body = TaskBody(tasks'[resp'.id])]_vars

\* a task completed by the completion request, at a time that is not 0, was
\* reopened by an update: its status is still "completed"
C11_Witness ==
    /\ resp.op = "updateTask"
    /\ resp.status = "OK"
    /\ resp.body.ent.completed = "false"
    /\ resp.body.ent.status = "completed"
    /\ resp.body.ent.completedAt = NullTs
    /\ now = MaxTime

\* C12 -- Edge-triggered no-op: an update whose payload omits completed, or
\* carries the value of completed that the task has, leaves the completedAt
\* of the task as it was, for every payload the request accepts.
C12_EdgeNoOp ==
    [][(/\ resp'.op = "updateTask"
        /\ resp'.status = "OK"
        /\ resp'.id \in DOMAIN tasks)
       => \A body \in LifeUpdateTaskBodies :
             (/\ body.completed \in {"absent", tasks[resp'.id].completed}
              /\ UpdateTaskReq(resp'.by, resp'.id, body))
             => tasks'[resp'.id].completedAt = tasks[resp'.id].completedAt]_vars

\* C13 -- for every stored task, completed is true if and only if
\* completedAt is not null.
C13_CompletedIffCompletedAt ==
    \A t \in DOMAIN tasks : (tasks[t].completed = "true") <=> (tasks[t].completedAt # NullTs)

\* C28 -- Store equivalence for task update: for every stored task and
\* every payload (completed absent, true or false; completedAt absent, null
\* or a date), MemStorage.updateTask and DatabaseStorage.updateTask called
\* at the same time leave the task with the same completed and the same
\* completedAt.
C28_UpdateTaskEquivalence ==
    \A id \in DOMAIN tasks : \A body \in LifeUpdateTaskBodies :
        LET mem == MemUpdateTask(tasks, id, body, now).tasks[id]
            db  == DbUpdateTask(projects, tasks, id, body, now).tasks[id]
        IN  /\ mem.completed = db.completed
            /\ mem.completedAt = db.completedAt

----------------------------------------------------------------------------
(* SpecTwice: requests that follow one another with the last response      *)
(* still in resp: the bodies are those the client sends when a task is     *)
(* ticked and unticked (TaskItem.handleToggleComplete).                    *)

\* { completed: true, status: "completed", completedAt: new Date() }
ToggleOnBody(t) ==
    [userId |-> NoUserId, projectId |-> Absent,
     completed |-> "true", status |-> "completed", completedAt |-> t,
     id |-> NoTaskId, createdAt |-> AbsentTs]

\* { completed: false, status: "todo" }
ToggleOffBody ==
    [userId |-> NoUserId, projectId |-> Absent,
     completed |-> "false", status |-> "todo", completedAt |-> AbsentTs,
     id |-> NoTaskId, createdAt |-> AbsentTs]

NextTwice ==
    \/ \E u \in LifeUsers : CreateProjectReq(u, LifeProjectBody, MaxLifeProjectId)
    \/ \E u \in LifeUsers, body \in LifeCreateTaskBodies : CreateTaskReq(u, body, MaxLifeTaskId)
    \/ \E u \in LifeUsers, id \in LifeTaskIds : GetTaskReq(u, id)
    \/ \E u \in LifeUsers, id \in LifeTaskIds :
          UpdateTaskReq(u, id, ToggleOnBody(now)) \/ UpdateTaskReq(u, id, ToggleOffBody)
    \/ \E u \in LifeUsers, id \in LifeTaskIds : CompleteTaskReq(u, id)
    \/ \E u \in LifeUsers, id \in LifeTaskIds : DeleteTaskReq(u, id)
    \/ Tick

SpecTwice == Init /\ [][NextTwice]_vars

\* C9 -- Completion idempotence: complete(t) right after a successful
\* complete(t) succeeds again, both responses have completed = true and
\* status = "completed", and the second completedAt is >= the first.
C9_CompleteTwice ==
    [][(/\ resp.op = "completeTask"
        /\ resp.status = "OK"
        /\ CompleteTaskReq(resp.by, resp.id))
       => /\ resp'.status = "OK"
          /\ resp.body.ent.completed = "true"
          /\ resp'.body.ent.completed = "true"
          /\ resp.body.ent.status = "completed"
          /\ resp'.body.ent.status = "completed"
          /\ resp'.body.ent.completedAt >= resp.body.ent.completedAt]_vars

\* a completion at a later time than the task's creation and first completion
C9_Witness ==
    /\ resp.op = "completeTask"
    /\ resp.status = "OK"
    /\ resp.body.ent.completed = "true"
    /\ resp.body.ent.completedAt = MaxTime
    /\ now = MaxTime

----------------------------------------------------------------------------
(* SpecEdit: the project requests with bodies that vary every key of a     *)
(* project, among them keys that the client has no business sending.       *)

EditProjectIds == 1..MaxEditProjectId

\* a date that no clock of the model shows
OtherDate == MaxTime + 1

EditCreateBodies ==
    [name : {"A"}, description : {"absent", "d"}, status : {"absent", "active"},
     dueDate : {NullTs, 0}, userId : {NoUserId}, createdAt : {AbsentTs}]

EditUpdateBodies ==
    [name : {"absent", "A", "B"}, description : {"absent", "e"},
     status : {"absent", "done"}, dueDate : {AbsentTs, OtherDate},
     userId : {NoUserId} \cup Users, createdAt : {AbsentTs, OtherDate}]

NextEdit ==
    \/ \E u \in Users, body \in EditCreateBodies :
          Idle /\ CreateProjectReq(u, body, MaxEditProjectId)
    \/ \E u \in Users, id \in EditProjectIds : Idle /\ GetProjectReq(u, id)
    \/ \E u \in Users, id \in EditProjectIds, body \in EditUpdateBodies :
          Idle /\ UpdateProjectReq(u, id, body)
    \/ \E u \in Users, id \in EditProjectIds : Idle /\ DeleteProjectReq(u, id)
    \/ Receive

SpecEdit == Init /\ [][NextEdit]_vars

\* C14 -- Project update is a partial merge: a request by the owner that
\* supplies only some of name, description, status and dueDate is accepted,
\* and every one of the four that the request does not supply keeps the
\* value it had.
C14_PartialMerge ==
    [][(Request({"updateProject"}) /\ Guard(projects, resp'.id, resp'.by) = "Allowed")
       => \A body \in EditUpdateBodies :
             UpdateProjectReq(resp'.by, resp'.id, body)
             => /\ resp'.status = "OK"
                /\ body.name = "absent"
                   => projects'[resp'.id].name = projects[resp'.id].name
                /\ body.description = "absent"
                   => projects'[resp'.id].description = projects[resp'.id].description
                /\ body.status = "absent"
                   => projects'[resp'.id].status = projects[resp'.id].status
                /\ body.dueDate = AbsentTs
                   => projects'[resp'.id].dueDate = projects[resp'.id].dueDate]_vars

\* C15 -- Project owner immutability: an update-project request, whatever
\* userId (or createdAt) its body carries, leaves the userId, the id and the
\* createdAt of every stored project as they were, and no project appears
\* or disappears.
C15_OwnerImmutable ==
    [][Request({"updateProject"})
       => /\ DOMAIN projects' = DOMAIN projects
          /\ \A i \in DOMAIN projects :
                /\ projects'[i].userId = projects[i].userId
                /\ projects'[i].id = i
                /\ projects'[i].createdAt = projects[i].createdAt]_vars

\* the owner's update went through and changed the name and the dueDate;
\* the project is still the owner's and as old as it was
C15_Witness ==
    /\ resp.op = "updateProject"
    /\ resp.status = "OK"
    /\ projects[resp.id].name = "B"
    /\ projects[resp.id].dueDate = OtherDate
    /\ projects[resp.id].userId = resp.by
    /\ projects[resp.id].createdAt = 0

----------------------------------------------------------------------------
(* SpecStats: the stats of both users over tasks in every combination of   *)
(* completed and status that the create and the completion request give.   *)

StatsProjectIds == 1..MaxStatsProjectId
StatsTaskIds == 1..MaxStatsTaskId

StatsCreateTaskBodies ==
    [titleOk : {TRUE}, projectId : {Num(n) : n \in StatsProjectIds}, userId : {NoUserId},
     completed : {"absent", "true", "false"}, status : {"absent", "in-progress"}]

NextStats ==
    \/ \E u \in Users : Idle /\ CreateProjectReq(u, LifeProjectBody, MaxStatsProjectId)
    \/ \E u \in Users, body \in StatsCreateTaskBodies :
          Idle /\ CreateTaskReq(u, body, MaxStatsTaskId)
    \/ \E u \in Users, id \in StatsTaskIds : Idle /\ CompleteTaskReq(u, id)
    \/ \E u \in Users, id \in StatsTaskIds : Idle /\ DeleteTaskReq(u, id)
    \/ \E u \in Users : Idle /\ GetStatsReq(u)
    \/ Receive

SpecStats == Init /\ [][NextStats]_vars

\* C20 -- Stats consistency: in every stats response completedTasks +
\* inProgressTasks <= totalTasks, with equality exactly when every task of
\* the user is completed, or is not completed (completed false, or unset) and
\* has status "in-progress".
C20_StatsConsistency ==
    [][Request({"getStats"})
       => LET s == resp'.body.stats
              mine == {t \in DOMAIN tasks : tasks[t].userId = resp'.by}
          IN /\ s.totalTasks = Cardinality(mine)
             /\ s.completedTasks + s.inProgressTasks <= s.totalTasks
             /\ (s.completedTasks + s.inProgressTasks = s.totalTasks)
                <=> \A t \in mine :
                       \/ tasks[t].completed = "true"
                       \/ tasks[t].completed # "true" /\ tasks[t].status = "in-progress"]_vars

\* stats of a user with a completed task whose status is "in-progress" and
\* a task that is neither completed nor in progress: 1 + 0 < 2
C20_Witness ==
    /\ resp.op = "getStats"
    /\ resp.body.stats.totalTasks = 2
    /\ resp.body.stats.completedTasks = 1
    /\ resp.body.stats.inProgressTasks = 0
    /\ \E t \in DOMAIN tasks :
          /\ tasks[t].userId = resp.by
          /\ tasks[t].completed = "true"
          /\ tasks[t].status = "in-progress"

\* C21 -- Stats definition: get-stats of user u returns totalProjects = the
\* number of stored projects with userId u, totalTasks = the number of
\* stored tasks with userId u, completedTasks = the number of those with
\* completed true, inProgressTasks = the number of those that are not
\* completed (completed false, or unset) with status exactly "in-progress";
\* a completed task with status "in-progress" counts as completed only.
C21_StatsDefinition ==
    [][Request({"getStats"})
       => LET s == resp'.body.stats
              u == resp'.by
              mine == {t \in DOMAIN tasks : tasks[t].userId = u}
          IN /\ resp'.status = "OK"
             /\ s.totalProjects = Cardinality({p \in DOMAIN projects : projects[p].userId = u})
             /\ s.totalTasks = Cardinality(mine)
             /\ s.completedTasks = Cardinality({t \in mine : tasks[t].completed = "true"})
             /\ s.inProgressTasks =
                   Cardinality({t \in mine : /\ tasks[t].completed # "true"
                                             /\ tasks[t].status = "in-progress"})]_vars

\* stats of a user with one task in progress, while the other user has a
\* project and a task too
C21_Witness ==
    /\ resp.op = "getStats"
    /\ resp.body.stats.totalProjects = 1
    /\ resp.body.stats.totalTasks = 1
    /\ resp.body.stats.completedTasks = 0
    /\ resp.body.stats.inProgressTasks = 1
    /\ Cardinality(DOMAIN projects) = 2
    /\ Cardinality(DOMAIN tasks) = 2

----------------------------------------------------------------------------
(* SpecRace: overlapping project requests of one user, with ids enough for *)
(* a fifth project.                                                        *)

\* the user whose requests overlap
RaceUsers == {1}
RaceProjectIds == 1..MaxRaceProjectId

NextRace ==
    \/ \E s \in Slots, u \in RaceUsers, body \in ProjectBodies :
          CreateProjectCount(s, u, body, MaxRaceProjectId)
    \/ \E s \in Slots : CreateProjectInsert(s)
    \/ \E s \in Slots, u \in RaceUsers, id \in RaceProjectIds : DeleteProjectGuard(s, u, id)
    \/ \E s \in Slots : DeleteProjectDelete(s)

SpecRace == Init /\ [][NextRace]_vars

\* C17 -- Concurrent quota race: when a create-project request that counted
\* 3 projects of its user completes, and the requests that overlapped with
\* it have completed too, the user owns at most 4 projects.
C17_QuotaRace ==
    [][\A s \in Slots :
         (/\ calls[s].op = "createProject"
          /\ calls[s].count = 3
          /\ \A r \in Slots : calls'[r] = NoCall)
         => Owned(projects', calls[s].by) <= 4]_vars

----------------------------------------------------------------------------
(* SpecConc: project deletes that overlap with task creates and task       *)
(* reads.                                                                  *)

ConcProjectIds == 1..MaxConcProjectId
ConcTaskIds == 1..MaxConcTaskId

ConcCreateTaskBodies ==
    [titleOk : {TRUE}, projectId : {Num(n) : n \in ConcProjectIds}, userId : {NoUserId},
     completed : {"absent"}, status : {"absent"}]

NextConc ==
    \/ \E s \in Slots, u \in RaceUsers :
          CreateProjectCount(s, u, LifeProjectBody, MaxConcProjectId)
    \/ \E s \in Slots : CreateProjectInsert(s)
    \/ \E s \in Slots, u \in RaceUsers, body \in ConcCreateTaskBodies :
          CreateTaskGuard(s, u, body, MaxConcTaskId)
    \/ \E s \in Slots : CreateTaskInsert(s)
    \/ \E s \in Slots, u \in RaceUsers, id \in ConcProjectIds : DeleteProjectGuard(s, u, id)
    \/ \E s \in Slots : DeleteProjectDelete(s)
    \/ \E u \in RaceUsers, id \in ConcTaskIds : GetTaskReq(u, id)

SpecConc == Init /\ [][NextConc]_vars

----------------------------------------------------------------------------
(* SpecFail: every request that can be refused, with ids enough for the    *)
(* quota of one user and a task.                                           *)

FailProjectIds == 1..MaxFailProjectId
FailTaskIds == 1..MaxFailTaskId

FailCreateTaskBodies ==
    [titleOk : BOOLEAN, projectId : {Num(n) : n \in 0..1}, userId : {NoUserId},
     completed : {"absent"}, status : {"absent"}]

FailUpdateTaskBodies ==
    [userId : {NoUserId}, projectId : {Absent} \cup {Num(n) : n \in FailProjectIds},
     completed : {"absent"}, status : {"absent"}, completedAt : {AbsentTs},
     id : {NoTaskId}, createdAt : {AbsentTs}]

NextFail ==
    \/ \E u \in Users, id \in FailProjectIds : Idle /\ GetProjectReq(u, id)
    \/ \E u \in Users, body \in ProjectBodies :
          Idle /\ CreateProjectReq(u, body, MaxFailProjectId)
    \/ \E u \in Users, id \in FailProjectIds, body \in ProjectBodies :
          Idle /\ UpdateProjectReq(u, id, body)
    \/ \E u \in Users, id \in FailProjectIds : Idle /\ DeleteProjectReq(u, id)
    \/ \E u \in Users, id \in FailTaskIds : Idle /\ GetTaskReq(u, id)
    \/ \E u \in Users, body \in FailCreateTaskBodies :
          Idle /\ CreateTaskReq(u, body, MaxFailTaskId)
    \/ \E u \in Users, id \in FailTaskIds, body \in FailUpdateTaskBodies :
          Idle /\ UpdateTaskReq(u, id, body)
    \/ \E u \in Users, id \in FailTaskIds : Idle /\ DeleteTaskReq(u, id)
    \/ \E u \in Users, id \in FailTaskIds : Idle /\ CompleteTaskReq(u, id)
    \/ Receive

SpecFail == Init /\ [][NextFail]_vars

\* the errors that a handler answers by itself
Refusals == {"ValidationError", "NotFound", "Forbidden", "QuotaExceeded"}

\* C24 -- Failed requests write nothing: a request that ends in
\* ValidationError, NotFound, Forbidden or QuotaExceeded leaves the stored
\* projects and tasks, every field of them, as they were; a create-project
\* request of a user who owns 4 projects ends in QuotaExceeded whatever its
\* body, an invalid one included.
C24_FailedRequestsWriteNothing ==
    [][/\ (resp' # resp /\ resp'.status \in Refusals)
          => (projects' = projects /\ tasks' = tasks)
       /\ (Request({"createProject"}) /\ Owned(projects, resp'.by) >= 4)
          => \A body \in ProjectBodies :
                CreateProjectReq(resp'.by, body, MaxFailProjectId)
                => resp'.status = "QuotaExceeded"]_vars

\* a create-task request for the project of the other user, who owns 4
\* projects and a task, was refused
C24_Witness ==
    /\ resp.op = "createTask"
    /\ resp.status = "Forbidden"
    /\ \E u \in Users \ {resp.by} : Owned(projects, u) = 4
    /\ Cardinality(DOMAIN tasks) = 1

----------------------------------------------------------------------------
(* SpecIdent: task updates whose bodies carry the keys id and createdAt.   *)

IdentProjectIds == 1..MaxIdentProjectId
IdentTaskIds == 1..MaxIdentTaskId

IdentCreateTaskBodies ==
    [titleOk : {TRUE}, projectId : {Num(n) : n \in IdentProjectIds}, userId : {NoUserId},
     completed : {"absent"}, status : {"absent"}]

\* the ids of a body: no key, the id of a task, the id after them
IdentUpdateTaskBodies ==
    [userId : {NoUserId}, projectId : {Absent},
     completed : {"absent", "true"}, status : {"absent"}, completedAt : {AbsentTs},
     id : {NoTaskId} \cup 1..(MaxIdentTaskId + 1), createdAt : {AbsentTs, OtherDate}]

NextIdent ==
    \/ \E u \in Users : Idle /\ CreateProjectReq(u, LifeProjectBody, MaxIdentProjectId)
    \/ \E u \in Users, body \in IdentCreateTaskBodies :
          Idle /\ CreateTaskReq(u, body, MaxIdentTaskId)
    \/ \E u \in Users, id \in IdentTaskIds, body \in IdentUpdateTaskBodies :
          Idle /\ UpdateTaskReq(u, id, body)
    \/ \E u \in Users, id \in IdentTaskIds : Idle /\ GetTaskReq(u, id)
    \/ \E u \in Users, id \in IdentTaskIds : Idle /\ DeleteTaskReq(u, id)
    \/ Receive

SpecIdent == Init /\ [][NextIdent]_vars

\* C26 -- Task identity is stable under update: an update-task request,
\* whatever its body carries, leaves every stored task stored under its id
\* with the id and the createdAt it had, and leaves the number of stored
\* tasks as it was.
C26_TaskIdentityStable ==
    [][Request({"updateTask"})
       => /\ Cardinality(DOMAIN tasks') = Cardinality(DOMAIN tasks)
          /\ \A i \in DOMAIN tasks :
                /\ i \in DOMAIN tasks'
                /\ tasks'[i].id = tasks[i].id
                /\ tasks'[i].createdAt = tasks[i].createdAt]_vars

----------------------------------------------------------------------------
(* SpecLate: one principal whose requests overlap; tasks are updated,      *)
(* completed and deleted, and the project is deleted with its tasks.       *)

LateProjectIds == 1..MaxLateProjectId
LateTaskIds == 1..MaxLateTaskId

LateCreateTaskBodies ==
    [titleOk : {TRUE}, projectId : {Num(n) : n \in LateProjectIds}, userId : {NoUserId},
     completed : {"absent"}, status : {"absent"}]

\* bodies with and without completed: true, the id of the first task, and
\* the id of a project that no request creates
LateUpdateTaskBodies ==
    [userId : {NoUserId}, projectId : {Absent, Num(MaxLateProjectId + 1)},
     completed : {"absent", "true"}, status : {"absent"}, completedAt : {AbsentTs},
     id : {NoTaskId, 1}, createdAt : {AbsentTs}]

NextLate ==
    \/ \E s \in Slots, u \in RaceUsers :
          CreateProjectCount(s, u, LifeProjectBody, MaxLateProjectId)
    \/ \E s \in Slots : CreateProjectInsert(s)
    \/ \E s \in Slots, u \in RaceUsers, body \in LateCreateTaskBodies :
          CreateTaskGuard(s, u, body, MaxLateTaskId)
    \/ \E s \in Slots : CreateTaskInsert(s)
    \/ \E s \in Slots, u \in RaceUsers, id \in LateProjectIds : DeleteProjectGuard(s, u, id)
    \/ \E s \in Slots : DeleteProjectDelete(s)
    \/ \E s \in Slots, u \in RaceUsers, id \in LateTaskIds, body \in LateUpdateTaskBodies :
          UpdateTaskGuard(s, u, id, body)
    \/ \E s \in Slots : UpdateTaskProject(s)
    \/ \E s \in Slots : UpdateTaskSelect(s)
    \/ \E s \in Slots : UpdateTaskWrite(s)
    \/ \E s \in Slots, u \in RaceUsers, id \in LateTaskIds : CompleteTaskGuard(s, u, id)
    \/ \E s \in Slots : CompleteTaskWrite(s)
    \/ \E s \in Slots, u \in RaceUsers, id \in LateTaskIds : DeleteTaskGuard(s, u, id)
    \/ \E s \in Slots : DeleteTaskDelete(s)
    \/ Receive

SpecLate == Init /\ [][NextLate]_vars

\* the ids that createTask has handed out and that are not stored: the
\* deleted tasks (and the ids of inserts that failed)
Gone == {t \in 1..(taskIdCounter - 1) : t \notin DOMAIN tasks}

\* C27 -- No resurrection: a task that was deleted, by delete-task or with
\* its project, is not stored again by any step; an update-task or
\* complete-task request that passed its checks before the delete and
\* writes after it stores nothing and answers without a task.
C27_NoResurrection ==
    [][/\ \A t \in Gone : t \notin DOMAIN tasks'
       /\ (/\ Request({"updateTask", "completeTask"})
           /\ resp'.id \in Gone
           /\ resp'.status \notin {"NotFound", "Forbidden"})
          => (tasks' = tasks /\ resp'.body.kind # "task")]_vars

----------------------------------------------------------------------------
(* SpecSnap: get-stats requests of one principal that overlap with the     *)
(* creation and the deletion of its projects and tasks.                    *)

SnapProjectIds == 1..MaxSnapProjectId
SnapTaskIds == 1..MaxSnapTaskId

SnapCreateTaskBodies ==
    [titleOk : {TRUE}, projectId : {Num(n) : n \in SnapProjectIds}, userId : {NoUserId},
     completed : {"absent"}, status : {"absent"}]

NextSnap ==
    \/ \E s \in Slots, u \in RaceUsers :
          CreateProjectCount(s, u, LifeProjectBody, MaxSnapProjectId)
    \/ \E s \in Slots : CreateProjectInsert(s)
    \/ \E s \in Slots, u \in RaceUsers, body \in SnapCreateTaskBodies :
          CreateTaskGuard(s, u, body, MaxSnapTaskId)
    \/ \E s \in Slots : CreateTaskInsert(s)
    \/ \E s \in Slots, u \in RaceUsers, id \in SnapProjectIds : DeleteProjectGuard(s, u, id)
    \/ \E s \in Slots : DeleteProjectDelete(s)
    \/ \E s \in Slots, u \in RaceUsers, id \in SnapTaskIds : DeleteTaskGuard(s, u, id)
    \/ \E s \in Slots : DeleteTaskDelete(s)
    \/ \E s \in Slots, u \in RaceUsers : StatsProjects(s, u)
    \/ \E s \in Slots : StatsTasks(s)
    \/ Receive

SpecSnap == Init /\ [][NextSnap]_vars

\* C29 -- Stats snapshot consistency: the four counts that a get-stats
\* request answers are the counts of one store that existed between the
\* request's read of the projects and its answer, whatever requests of the
\* same user ran in between.
C29_StatsSnapshot ==
    [][\A s \in Slots :
          (calls[s].op = "getStats" /\ calls'[s] = NoCall)
          => resp'.body.stats \in calls[s].body.seen]_vars

====
